---- MODULE Spec2Model ----
(***************************************************************************)
(* Nazdeeki backend: OTP authentication, refresh-token sessions and the    *)
(* cascade deletion of seller accounts.                                    *)
(*                                                                         *)
(* The relational tables are the state.  Every HTTP handler is one action  *)
(* (requests handled one after another).  Time is counted in minutes.      *)
(* Rows carry the columns the handlers read or write; ip_address,          *)
(* device_info and user_agent are constant per client and left out.        *)
(***************************************************************************)
EXTENDS Integers, Sequences, FiniteSets, TLC

VARIABLES now, otp_attempts, sellers, addresses, auth_sessions, auth_logs,
          rest, referencing, users, inflight, issued, resp, last

vars == <<now, otp_attempts, sellers, addresses, auth_sessions, auth_logs,
          rest, referencing, users, inflight, issued, resp, last>>

\* SQL NULL and JavaScript null/undefined, one value per column type
NULL == "NULL"
NoTime == -1
NoId == 0
NoPhone == <<>>
NoSession == <<>>

----------------------------------------------------------------------------
(* Program constants, in minutes where they are durations.                 *)

OtpTtl == 5
RateWindow == 60
RateLimit == 5
MaxOtpFailures == 3
AccessTtl == 15
RefreshTtl == 10080
SessionTtl == 10080
MinPhoneLen == 10
CleanPhoneLen == 10

(* Bounds of the model.                                                    *)

MaxRows == 2
MaxRateRows == 6
MaxSessions == MaxRows
MaxInflight == 2

----------------------------------------------------------------------------
(* Phone numbers are sequences of characters.                              *)

PhoneOld == <<"9", "3", "2", "5", "2", "3", "5", "5", "9", "2">>
PhoneNew == <<"9", "9", "9", "9", "9", "9", "9", "9", "9", "9">>
PhoneSusp == <<"+", "9", "1", "8", "8", "8", "8", "8", "8", "8", "8", "8", "8">>
PhoneShort == <<"9", "3", "2", "5", "2">>
PhoneThird == <<"7", "7", "7", "7", "7", "7", "7", "7", "7", "7">>

Digits == {"0", "1", "2", "3", "4", "5", "6", "7", "8", "9"}

Codes == {"1234", "5678"}

RestIdTables == {"collection", "likes", "menu", "order_list", "orders", "rating"}

----------------------------------------------------------------------------
(* Helpers of authRoutes.js and smsService.js.                             *)

\* crypto sha256: injective on the values the model hashes
hashToken(token) == <<"sha256", token>>

RECURSIVE StripNonDigits(_)
StripNonDigits(s) ==
    IF s = <<>> THEN <<>>
    ELSE IF Head(s) \in Digits THEN <<Head(s)>> \o StripNonDigits(Tail(s))
    ELSE StripNonDigits(Tail(s))

\* phoneNumber.replace(/^\+91/, '').replace(/\D/g, '')
cleanPhoneNumber(p) ==
    StripNonDigits(IF Len(p) >= 3 /\ SubSeq(p, 1, 3) = <<"+", "9", "1">>
                   THEN SubSeq(p, 4, Len(p)) ELSE p)

\* send2FactorOTP: net is the outcome of the HTTP call ("ok", "error" or
\* "timeout"); a number that does not clean to 10 digits fails before the call.
send2FactorOTP(phoneNumber, otp, net) ==
    IF Len(cleanPhoneNumber(phoneNumber)) # CleanPhoneLen
    THEN [success |-> FALSE, sessionId |-> NoSession, called |-> FALSE,
          error |-> "Failed to send SMS"]
    ELSE IF net = "ok"
    THEN [success |-> TRUE, sessionId |-> <<"2F", otp>>, called |-> TRUE,
          error |-> NULL]
    ELSE [success |-> FALSE, sessionId |-> NoSession, called |-> TRUE,
          error |-> IF net = "timeout" THEN "SMS service timeout. Please try again."
                    ELSE "Failed to send SMS"]

\* verify2FactorOTP: the provider accepts only the code it sent in the session,
\* and only when the call goes through.
verify2FactorOTP(sessionId, otp, net) ==
    [success |-> (net = "ok" /\ sessionId = <<"2F", otp>>)]

\* jwt.sign with JWT_SECRET
jwtSign(payload, ttl) ==
    [payload EXCEPT !.iat = now, !.exp = now + ttl, !.sig = "valid"]

\* jwt.verify: signature and expiry; says nothing about the type claim
jwtVerify(token, t) == token.sig = "valid" /\ t < token.exp

Payload(userId, phone, name, restaurant, addressId, menuId, type) ==
    [userId |-> userId, phone |-> phone, name |-> name, restaurant |-> restaurant,
     addressId |-> addressId, menuId |-> menuId, type |-> type,
     iat |-> 0, exp |-> 0, sig |-> NULL]

\* no token in the request
NoToken == Payload(NULL, NoPhone, NULL, NULL, NoId, NoId, NULL)

\* no signupData in the request
NoSignup == [ownerName |-> NULL, restaurantName |-> NULL]

\* a row of auth_logs (id and created_at left out)
LogRow(eventType, phoneNumber, sellerId, success, error) ==
    [seller_id |-> sellerId, phone_number |-> phoneNumber, event_type |-> eventType,
     success |-> success, error_message |-> error]

\* logAuthEvent: INSERT INTO auth_logs
logAuthEvent(logs, eventType, phoneNumber, sellerId, success, error) ==
    logs \cup {LogRow(eventType, phoneNumber, sellerId, success, error)}

Response(status, error) ==
    [status |-> status, error |-> error, isSignup |-> NULL, smsProvider |-> NULL,
     smsStatus |-> NULL, accessToken |-> NoToken, refreshToken |-> NoToken,
     userId |-> NULL]

Request(op, phone, otp, token) ==
    [op |-> op, phone |-> phone, otp |-> otp, token |-> token, row |-> 0,
     recent |-> 0, sms |-> FALSE, seller |-> NULL]

----------------------------------------------------------------------------
(* Queries.                                                                *)

SellersByPhone_orFirst(phoneNumber) ==
    IF \E s \in sellers : s.rest_phone = phoneNumber
    THEN {s \in sellers : s.rest_phone = phoneNumber}
    ELSE sellers

\* SELECT ... FROM sellers WHERE rest_phone = $1
SellersByPhone(phoneNumber) == {s \in sellers : s.rest_phone = phoneNumber}

SellerById(id) == {s \in sellers : s.seller_id = id}

\* SELECT COUNT(*) FROM otp_attempts WHERE phone_number = $1
\*   AND created_at > NOW() - INTERVAL '1 hour'
recentAttempts(phoneNumber) ==
    Cardinality({i \in 1..Len(otp_attempts) :
                   /\ otp_attempts[i].phone_number = phoneNumber
                   /\ otp_attempts[i].created_at > now - RateWindow})

----------------------------------------------------------------------------
(* POST /auth/send-otp                                                     *)

suspended_never(isSignup, seller) == FALSE

\* if (!isSignup && seller.account_status === 'suspended')
suspended(isSignup, seller) == ~isSignup /\ seller.account_status = "suspended"

rateLimited_gt(count) == count > RateLimit

\* if (parseInt(recentAttempts[0].count) >= 5)
rateLimited(count) == count >= RateLimit

OtpRow(id, phoneNumber, otp, isSignup, sms) ==
    [id |-> id, phone_number |-> phoneNumber, otp_hash |-> hashToken(otp),
     attempts |-> 0, created_at |-> now, expires_at |-> now + OtpTtl,
     verified_at |-> NoTime, is_signup |-> isSignup,
     session_id |-> sms.sessionId,
     sms_provider |-> IF sms.success THEN "2factor" ELSE "console",
     sms_status |-> IF sms.success THEN "sent" ELSE "fallback"]

SendOtp(phoneNumber, otp, net) ==
    LET found == SellersByPhone(phoneNumber)
        isSignup == found = {}
        seller == IF isSignup THEN NULL ELSE (CHOOSE s \in found : TRUE)
        sid == IF isSignup THEN NULL ELSE seller.seller_id
        count == recentAttempts(phoneNumber)
        sms == send2FactorOTP(phoneNumber, otp, net)
        req == [Request("send-otp", phoneNumber, otp, NoToken) EXCEPT !.recent = count]
    IN
    /\ IF Len(phoneNumber) < MinPhoneLen
       THEN /\ auth_logs' = logAuthEvent(auth_logs, "otp_request", phoneNumber, NULL,
                                         FALSE, "Invalid phone number")
            /\ resp' = Response(400, "Valid phone number required")
            /\ last' = req
            /\ UNCHANGED otp_attempts
       ELSE IF suspended(isSignup, seller)
       THEN /\ auth_logs' = logAuthEvent(auth_logs, "otp_request", phoneNumber, sid,
                                         FALSE, "Account suspended")
            /\ resp' = Response(403, "Account is suspended")
            /\ last' = req
            /\ UNCHANGED otp_attempts
       ELSE IF rateLimited(count)
       THEN /\ auth_logs' = logAuthEvent(auth_logs, "otp_request", phoneNumber, sid,
                                         FALSE, "Rate limit exceeded")
            /\ resp' = Response(429, "Too many OTP requests. Try again later.")
            /\ last' = req
            /\ UNCHANGED otp_attempts
       ELSE /\ otp_attempts' = Append(otp_attempts,
                                  OtpRow(Len(otp_attempts) + 1, phoneNumber, otp,
                                         isSignup, sms))
            /\ auth_logs' = logAuthEvent(auth_logs, "otp_sent", phoneNumber, sid,
                                         sms.success,
                                         sms.error)
            /\ resp' = [Response(200, NULL) EXCEPT
                          !.isSignup = isSignup,
                          !.smsProvider = IF sms.success THEN "2factor" ELSE "console",
                          !.smsStatus = IF sms.success THEN "sent" ELSE "fallback"]
            /\ last' = [req EXCEPT !.sms = sms.called, !.row = Len(otp_attempts) + 1]
    /\ UNCHANGED <<now, sellers, addresses, auth_sessions, rest, referencing, users, inflight, issued>>

----------------------------------------------------------------------------
(* POST /auth/user/send-otp (end users; same otp_attempts and auth_logs).  *)

\* the users table at the start: one end user, with the phone of SELLER_1
InitialUsers == {[user_id |-> "1", name |-> "Ravi", phone |-> PhoneOld]}

UsersByPhone(phoneNumber) == {u \in users : u.phone = phoneNumber}

\* `USER_${userId}` and `USER_${eventType}`
UserLogId(userId) ==
    IF userId = "1" THEN "USER_1" ELSE IF userId = "2" THEN "USER_2" ELSE "USER_3"

UserEventType(eventType) ==
    IF eventType = "otp_sent" THEN "USER_otp_sent"
    ELSE IF eventType = "otp_verify" THEN "USER_otp_verify"
    ELSE IF eventType = "signup" THEN "USER_signup"
    ELSE IF eventType = "login" THEN "USER_login"
    ELSE "USER_otp_request"

\* logAuthEvent of the user routes: seller_id is 'USER_<id>' or null and the
\* event type is prefixed; auth_logs.seller_id REFERENCES sellers, so a row for
\* a known user is refused by the database and the error is swallowed
userLogAuthEvent(logs, eventType, phoneNumber, userId, success, error) ==
    IF userId # NULL /\ SellerById(UserLogId(userId)) = {}
    THEN logs
    ELSE logs \cup {LogRow(UserEventType(eventType), phoneNumber,
                            IF userId = NULL THEN NULL ELSE UserLogId(userId),
                            success, error)}

\* the row the user handler stores: smsStatus is initialised to 'sent' and the
\* failure branch leaves it alone
UserOtpRow(id, phoneNumber, otp, isSignup, sms) ==
    [id |-> id, phone_number |-> phoneNumber, otp_hash |-> hashToken(otp),
     attempts |-> 0, created_at |-> now, expires_at |-> now + OtpTtl,
     verified_at |-> NoTime, is_signup |-> isSignup,
     session_id |-> sms.sessionId,
     sms_provider |-> IF sms.success THEN "2factor" ELSE "console",
     sms_status |-> "sent"]

UserSendOtp(phoneNumber, otp, net) ==
    LET found == UsersByPhone(phoneNumber)
        isSignup == found = {}
        uid == IF isSignup THEN NULL ELSE (CHOOSE u \in found : TRUE).user_id
        count == recentAttempts(phoneNumber)
        sms == send2FactorOTP(phoneNumber, otp, net)
        req == [Request("user-send-otp", phoneNumber, otp, NoToken)
                  EXCEPT !.recent = count]
    IN
    /\ IF Len(phoneNumber) < MinPhoneLen
       THEN /\ auth_logs' = userLogAuthEvent(auth_logs, "otp_request", phoneNumber,
                                             NULL, FALSE, "Invalid phone number")
            /\ resp' = Response(400, "Valid phone number required")
            /\ last' = req
            /\ UNCHANGED otp_attempts
       ELSE IF rateLimited(count)
       THEN /\ auth_logs' = userLogAuthEvent(auth_logs, "otp_request", phoneNumber,
                                             uid, FALSE, "Rate limit exceeded")
            /\ resp' = Response(429, "Too many OTP requests. Try again later.")
            /\ last' = req
            /\ UNCHANGED otp_attempts
       ELSE /\ otp_attempts' = Append(otp_attempts,
                                  UserOtpRow(Len(otp_attempts) + 1, phoneNumber, otp,
                                             isSignup, sms))
            /\ auth_logs' = userLogAuthEvent(auth_logs, "otp_sent", phoneNumber, uid,
                                             sms.success, sms.error)
            /\ resp' = [Response(200, NULL) EXCEPT
                          !.isSignup = isSignup,
                          !.smsProvider = IF sms.success THEN "2factor" ELSE "console",
                          !.smsStatus = IF sms.success THEN "sent" ELSE "fallback"]
            /\ last' = [req EXCEPT !.sms = sms.called, !.row = Len(otp_attempts) + 1]
    /\ UNCHANGED <<now, sellers, addresses, auth_sessions, rest, referencing, users, inflight, issued>>

----------------------------------------------------------------------------
(* The clock.                                                              *)

Tick(d, max) ==
    /\ now + d <= max
    /\ now' = now + d
    /\ UNCHANGED <<otp_attempts, sellers, addresses, auth_sessions, auth_logs,
                   rest, referencing, users, inflight, issued, resp, last>>

----------------------------------------------------------------------------
(* POST /auth/verify-otp                                                   *)

Max(S) == CHOOSE x \in S : \A y \in S : y <= x

mostRecentUnexpired_oldest(phoneNumber) ==
    LET live == {i \in 1..Len(otp_attempts) :
                   /\ otp_attempts[i].phone_number = phoneNumber
                   /\ otp_attempts[i].expires_at > now}
    IN IF live = {} THEN 0 ELSE CHOOSE i \in live : \A j \in live : i <= j

mostRecentUnexpired_inclusive(phoneNumber) ==
    LET live == {i \in 1..Len(otp_attempts) :
                   /\ otp_attempts[i].phone_number = phoneNumber
                   /\ otp_attempts[i].expires_at >= now}
        newest == {i \in live : \A j \in live :
                     otp_attempts[j].created_at <= otp_attempts[i].created_at}
    IN IF live = {} THEN 0 ELSE Max(newest)

\* SELECT * FROM otp_attempts WHERE phone_number = $1 AND expires_at > NOW()
\*   ORDER BY created_at DESC LIMIT 1
\* (the id orders rows inserted within the same minute); 0 when no row
mostRecentUnexpired(phoneNumber) ==
    LET live == {i \in 1..Len(otp_attempts) :
                   /\ otp_attempts[i].phone_number = phoneNumber
                   /\ otp_attempts[i].expires_at > now}
        newest == {i \in live : \A j \in live :
                     otp_attempts[j].created_at <= otp_attempts[i].created_at}
    IN IF live = {} THEN 0 ELSE Max(newest)

\* the verification order: provider first, then the local hash
otpVerification(otpRecord, otp, net) ==
    LET viaProvider == /\ otpRecord.session_id # NoSession
                       /\ otpRecord.sms_provider = "2factor"
                       /\ verify2FactorOTP(otpRecord.session_id, otp, net).success
    IN IF viaProvider THEN "2factor"
       ELSE IF otpRecord.otp_hash = hashToken(otp) THEN "local"
       ELSE "none"

tooManyAttempts_gt(otpRecord) == otpRecord.attempts > MaxOtpFailures

\* if (otpRecord.attempts >= 3)
tooManyAttempts(otpRecord) == otpRecord.attempts >= MaxOtpFailures

unique_phone_absent(phoneNumber) == FALSE

\* ALTER TABLE sellers ADD CONSTRAINT unique_phone UNIQUE(rest_phone): TRUE
\* when an INSERT of a sellers row with the phone is refused
unique_phone(phoneNumber) == SellersByPhone(phoneNumber) # {}

isNewUser_fromBody(otpRecord, signupData) == signupData # NoSignup

\* let isNewUser = otpRecord.is_signup
isNewUser(otpRecord, signupData) == otpRecord.is_signup

\* `SELLER_${Date.now()}_${random}`: an id never used before
NewSellerIds == {"SELLER_A", "SELLER_B"}

UsedSellerIds ==
    {s.seller_id : s \in sellers} \cup {l.seller_id : l \in auth_logs}
      \cup {t.userId : t \in issued}

\* get_next_address_id(): COALESCE(MAX(address_id), 0) + 1
get_next_address_id ==
    IF addresses = {} THEN 1 ELSE Max({a.address_id : a \in addresses}) + 1

\* SELECT COALESCE(MAX(item_id), 0) + 1 FROM menu
nextMenuId ==
    IF rest["menu"] = {} THEN 1 ELSE Max({m.id : m \in rest["menu"]}) + 1

\* trigger create_seller_address: INSERT ... ON CONFLICT (address_id) DO NOTHING
create_seller_address(addrs, addressId, sellerId) ==
    IF \E a \in addrs : a.address_id = addressId THEN addrs
    ELSE addrs \cup {[address_id |-> addressId, rest_id |-> sellerId]}

SessionRow(sellerId, refreshToken) ==
    [session_id |-> IF auth_sessions = {} THEN 1
                    ELSE Max({x.session_id : x \in auth_sessions}) + 1,
     seller_id |-> sellerId, refresh_token_hash |-> hashToken(refreshToken),
     expires_at |-> now + SessionTtl, is_active |-> TRUE, last_used |-> now]

\* the tail of verify-otp: sign both tokens, store the session, respond
IssueTokens(seller, phoneNumber, newUser, req, logs) ==
    LET accessToken == jwtSign(Payload(seller.seller_id, phoneNumber, seller.owner_name,
                                       seller.restaurant_name, seller.address_id,
                                       seller.menu_id, "access"), AccessTtl)
        refreshToken == jwtSign(Payload(seller.seller_id, phoneNumber, NULL, NULL,
                                        NoId, NoId, "refresh"), RefreshTtl)
    IN /\ auth_sessions' = auth_sessions \cup {SessionRow(seller.seller_id, refreshToken)}
       /\ issued' = issued \cup {accessToken, refreshToken}
       /\ auth_logs' = logs
       /\ resp' = [Response(200, NULL) EXCEPT !.isSignup = newUser,
                      !.accessToken = accessToken, !.refreshToken = refreshToken]
       /\ last' = [req EXCEPT !.seller = seller.seller_id]

VerifyOtp(phoneNumber, otp, signupData, net) ==
    LET id == mostRecentUnexpired(phoneNumber)
        otpRecord == otp_attempts[id]
        method == otpVerification(otpRecord, otp, net)
        req == [Request("verify-otp", phoneNumber, otp, NoToken) EXCEPT !.row = id]
        failed(error) == logAuthEvent(auth_logs, "otp_verify", phoneNumber, NULL,
                                      FALSE, error)
        verified == [otp_attempts EXCEPT ![id].verified_at = now,
                       ![id].sms_status = IF method = "2factor" THEN "verified_2factor"
                                          ELSE "verified_local"]
    IN
    /\ Cardinality(auth_sessions) < MaxSessions
    /\ NewSellerIds \ UsedSellerIds # {}
    /\ IF otp = NULL
       THEN /\ resp' = Response(400, "Phone number and OTP required")
            /\ last' = [req EXCEPT !.row = 0]
            /\ UNCHANGED <<otp_attempts, sellers, addresses, auth_sessions,
                           auth_logs, issued>>
       ELSE IF id = 0
       THEN /\ auth_logs' = failed("No valid OTP found")
            /\ resp' = Response(400, "No valid OTP found or OTP expired")
            /\ last' = req
            /\ UNCHANGED <<otp_attempts, sellers, addresses, auth_sessions, issued>>
       ELSE IF tooManyAttempts(otpRecord)
       THEN /\ auth_logs' = failed("Too many attempts")
            /\ resp' = Response(400, "Too many failed attempts")
            /\ last' = req
            /\ UNCHANGED <<otp_attempts, sellers, addresses, auth_sessions, issued>>
       ELSE IF method = "none"
       THEN /\ otp_attempts' = [otp_attempts EXCEPT ![id].attempts = @ + 1]
            /\ auth_logs' = failed("Invalid OTP")
            /\ resp' = Response(400, "Invalid OTP")
            /\ last' = req
            /\ UNCHANGED <<sellers, addresses, auth_sessions, issued>>
       ELSE IF isNewUser(otpRecord, signupData)
       THEN IF signupData.ownerName = NULL \/ signupData.restaurantName = NULL
            THEN /\ otp_attempts' = verified
                 /\ resp' = Response(400,
                               "Owner name and restaurant name required for signup")
                 /\ last' = req
                 /\ UNCHANGED <<sellers, addresses, auth_sessions, auth_logs, issued>>
            ELSE IF unique_phone(phoneNumber)
            \* INSERT INTO sellers violates unique_phone: the catch block
            THEN /\ otp_attempts' = verified
                 /\ auth_logs' = failed("duplicate key value")
                 /\ resp' = Response(500, "Failed to verify OTP")
                 /\ last' = req
                 /\ UNCHANGED <<sellers, addresses, auth_sessions, issued>>
            ELSE LET sellerId == CHOOSE s \in NewSellerIds : s \notin UsedSellerIds
                     seller == [seller_id |-> sellerId, rest_phone |-> phoneNumber,
                                owner_name |-> signupData.ownerName,
                                restaurant_name |-> signupData.restaurantName,
                                phone_verified |-> TRUE, account_status |-> "active",
                                address_id |-> get_next_address_id,
                                menu_id |-> nextMenuId, last_login |-> NoTime]
                 IN /\ otp_attempts' = verified
                    /\ sellers' = sellers \cup {seller}
                    /\ addresses' = create_seller_address(addresses, seller.address_id,
                                                          sellerId)
                    /\ IssueTokens(seller, phoneNumber, TRUE, req,
                                   logAuthEvent(auth_logs, "signup", phoneNumber,
                                                sellerId, TRUE, NULL))
       ELSE IF SellersByPhone(phoneNumber) = {}
       THEN /\ otp_attempts' = verified
            /\ resp' = Response(404, "Seller not found")
            /\ last' = req
            /\ UNCHANGED <<sellers, addresses, auth_sessions, auth_logs, issued>>
       ELSE LET seller == CHOOSE s \in SellersByPhone(phoneNumber) : TRUE
                updated == [seller EXCEPT !.last_login = now, !.phone_verified = TRUE]
            IN /\ otp_attempts' = verified
               /\ sellers' = (sellers \ {seller}) \cup {updated}
               /\ IssueTokens(seller, phoneNumber, FALSE, req,
                              logAuthEvent(auth_logs, "login", phoneNumber,
                                           seller.seller_id, TRUE, NULL))
               /\ UNCHANGED addresses
    /\ UNCHANGED <<now, rest, referencing, users, inflight>>

----------------------------------------------------------------------------
(* POST /auth/user/verify-otp, /auth/user/refresh, /auth/user/logout.      *)

\* user ids in increasing order
UserIdSeq == <<"1", "2", "3">>

UserIdNumber(id) == CHOOSE i \in 1..Len(UserIdSeq) : UserIdSeq[i] = id

\* SELECT COALESCE(MAX(user_id), 0) + 1 FROM users, as a position in UserIdSeq
nextUserId == Max({UserIdNumber(u.user_id) : u \in users} \cup {0}) + 1

\* `User ${phoneNumber.slice(-4)}`
NewUserName(phoneNumber) ==
    IF phoneNumber = PhoneNew THEN "User 9999"
    ELSE IF phoneNumber = PhoneThird THEN "User 7777"
    ELSE "User 5592"

\* the tail of the user verify-otp: both tokens are signed and returned;
\* nothing is stored for the refresh token
UserIssueTokens(user, phoneNumber, newUser, req) ==
    LET accessToken == jwtSign(Payload(user.user_id, phoneNumber, user.name, NULL,
                                       NoId, NoId, "access"), AccessTtl)
        refreshToken == jwtSign(Payload(user.user_id, phoneNumber, NULL, NULL,
                                        NoId, NoId, "refresh"), RefreshTtl)
    IN /\ issued' = issued \cup {accessToken, refreshToken}
       /\ resp' = [Response(200, NULL) EXCEPT !.isSignup = newUser,
                      !.accessToken = accessToken, !.refreshToken = refreshToken,
                      !.userId = user.user_id]
       /\ last' = req

UserVerifyOtp(phoneNumber, otp, net) ==
    LET id == mostRecentUnexpired(phoneNumber)
        otpRecord == otp_attempts[id]
        method == otpVerification(otpRecord, otp, net)
        req == [Request("user-verify-otp", phoneNumber, otp, NoToken) EXCEPT !.row = id]
        failed(error) == userLogAuthEvent(auth_logs, "otp_verify", phoneNumber, NULL,
                                          FALSE, error)
        verified == [otp_attempts EXCEPT ![id].verified_at = now,
                       ![id].sms_status = IF method = "2factor" THEN "verified_2factor"
                                          ELSE "verified_local"]
        found == UsersByPhone(phoneNumber)
    IN
    /\ nextUserId <= Len(UserIdSeq)
    /\ IF otp = NULL
       THEN /\ resp' = Response(400, "Phone number and OTP required")
            /\ last' = [req EXCEPT !.row = 0]
            /\ UNCHANGED <<otp_attempts, auth_logs, users, issued>>
       ELSE IF id = 0
       THEN /\ auth_logs' = failed("No valid OTP found")
            /\ resp' = Response(400, "No valid OTP found or OTP expired")
            /\ last' = req
            /\ UNCHANGED <<otp_attempts, users, issued>>
       ELSE IF tooManyAttempts(otpRecord)
       THEN /\ auth_logs' = failed("Too many attempts")
            /\ resp' = Response(400, "Too many failed attempts")
            /\ last' = req
            /\ UNCHANGED <<otp_attempts, users, issued>>
       ELSE IF method = "none"
       THEN /\ otp_attempts' = [otp_attempts EXCEPT ![id].attempts = @ + 1]
            /\ auth_logs' = failed("Invalid OTP")
            /\ resp' = Response(400, "Invalid OTP")
            /\ last' = req
            /\ UNCHANGED <<users, issued>>
       ELSE IF otpRecord.is_signup
       THEN LET user == [user_id |-> UserIdSeq[nextUserId],
                         name |-> NewUserName(phoneNumber), phone |-> phoneNumber]
            IN /\ otp_attempts' = verified
               /\ users' = users \cup {user}
               /\ auth_logs' = userLogAuthEvent(auth_logs, "signup", phoneNumber,
                                                user.user_id, TRUE, NULL)
               /\ UserIssueTokens(user, phoneNumber, TRUE, req)
       ELSE IF found = {}
       THEN /\ otp_attempts' = verified
            /\ resp' = Response(404, "User not found")
            /\ last' = req
            /\ UNCHANGED <<auth_logs, users, issued>>
       ELSE LET user == CHOOSE u \in found : TRUE
            IN /\ otp_attempts' = verified
               /\ auth_logs' = userLogAuthEvent(auth_logs, "login", phoneNumber,
                                                user.user_id, TRUE, NULL)
               /\ UserIssueTokens(user, phoneNumber, FALSE, req)
               /\ UNCHANGED users
    /\ UNCHANGED <<now, sellers, addresses, auth_sessions, rest, referencing,
                   inflight>>

\* POST /auth/user/refresh: the token is verified and the user is read; no
\* table of sessions is consulted
UserRefresh(refreshToken) ==
    LET payload == refreshToken
        found == {u \in users : u.user_id = payload.userId}
        user == CHOOSE u \in found : TRUE
        newAccessToken == jwtSign(Payload(user.user_id, user.phone, user.name, NULL,
                                          NoId, NoId, "access"), AccessTtl)
    IN
    /\ last' = Request("user-refresh", NoPhone, NULL, refreshToken)
    /\ IF refreshToken = NoToken
       THEN resp' = Response(400, "Refresh token required") /\ UNCHANGED issued
       ELSE IF ~jwtVerify(refreshToken, now)
       THEN resp' = Response(401, "Invalid or expired refresh token")
            /\ UNCHANGED issued
       ELSE IF payload.type # "refresh"
       THEN resp' = Response(400, "Invalid token type") /\ UNCHANGED issued
       ELSE IF found = {}
       THEN resp' = Response(404, "User not found") /\ UNCHANGED issued
       ELSE /\ issued' = issued \cup {newAccessToken}
            /\ resp' = [Response(200, NULL) EXCEPT !.accessToken = newAccessToken,
                          !.userId = user.user_id]
    /\ UNCHANGED <<now, otp_attempts, sellers, addresses, auth_sessions, auth_logs,
                   rest, referencing, users, inflight>>

\* POST /auth/user/logout: answers success and does nothing else
UserLogout ==
    /\ resp' = Response(200, NULL)
    /\ last' = Request("user-logout", NoPhone, NULL, NoToken)
    /\ UNCHANGED <<now, otp_attempts, sellers, addresses, auth_sessions, auth_logs,
                   rest, referencing, users, inflight, issued>>

----------------------------------------------------------------------------
(* POST /auth/refresh                                                      *)

activeSessions_anyState(userId, refreshTokenHash) ==
    {x \in auth_sessions : /\ x.seller_id = userId
                           /\ x.refresh_token_hash = refreshTokenHash
                           /\ x.expires_at > now}

\* SELECT * FROM auth_sessions WHERE seller_id = $1 AND refresh_token_hash = $2
\*   AND is_active = TRUE AND expires_at > NOW()
activeSessions(userId, refreshTokenHash) ==
    {x \in auth_sessions : /\ x.seller_id = userId
                           /\ x.refresh_token_hash = refreshTokenHash
                           /\ x.is_active = TRUE
                           /\ x.expires_at > now}

newAccessTokenClaims_stale(seller, payload) ==
    Payload(payload.userId, payload.phone, payload.name, payload.restaurant,
            payload.addressId, payload.menuId, "access")

\* the payload of newAccessToken: the row just read from sellers
newAccessTokenClaims(seller, payload) ==
    Payload(seller.seller_id, seller.rest_phone, seller.owner_name,
            seller.restaurant_name, seller.address_id, seller.menu_id, "access")

useSession_rotate(session) == [session EXCEPT !.last_used = now, !.is_active = FALSE]

\* UPDATE auth_sessions SET last_used = NOW() WHERE session_id = $1
useSession(session) == [session EXCEPT !.last_used = now]

Refresh(refreshToken) ==
    LET req == Request("refresh", NoPhone, NULL, refreshToken)
        payload == refreshToken
        sessions == activeSessions(payload.userId, hashToken(refreshToken))
        session == CHOOSE x \in sessions : \A y \in sessions : x.session_id <= y.session_id
        found == SellerById(payload.userId)
        seller == CHOOSE s \in found : TRUE
        newAccessToken == jwtSign(newAccessTokenClaims(seller, payload), AccessTtl)
        touched == (auth_sessions \ {session}) \cup {useSession(session)}
    IN
    /\ last' = req
    /\ IF refreshToken = NoToken
       THEN /\ resp' = Response(400, "Refresh token required")
            /\ UNCHANGED <<auth_sessions, issued>>
       ELSE IF ~jwtVerify(refreshToken, now)
       THEN /\ resp' = Response(401, "Invalid or expired refresh token")
            /\ UNCHANGED <<auth_sessions, issued>>
       ELSE IF payload.type # "refresh"
       THEN /\ resp' = Response(400, "Invalid token type")
            /\ UNCHANGED <<auth_sessions, issued>>
       ELSE IF sessions = {}
       THEN /\ resp' = Response(401, "Invalid or expired refresh token")
            /\ UNCHANGED <<auth_sessions, issued>>
       ELSE IF found = {}
       THEN /\ auth_sessions' = touched
            /\ resp' = Response(404, "User not found")
            /\ UNCHANGED issued
       ELSE /\ auth_sessions' = touched
            /\ issued' = issued \cup {newAccessToken}
            /\ resp' = [Response(200, NULL) EXCEPT !.accessToken = newAccessToken,
                          !.userId = seller.seller_id]
    /\ UNCHANGED <<now, otp_attempts, sellers, addresses, auth_logs, rest, referencing, users, inflight>>

----------------------------------------------------------------------------
(* POST /auth/logout                                                       *)

deactivate_toggle(refreshTokenHash) ==
    {IF x.refresh_token_hash = refreshTokenHash
     THEN [x EXCEPT !.is_active = ~@] ELSE x : x \in auth_sessions}

\* UPDATE auth_sessions SET is_active = FALSE WHERE refresh_token_hash = $1
deactivate(refreshTokenHash) ==
    {IF x.refresh_token_hash = refreshTokenHash
     THEN [x EXCEPT !.is_active = FALSE] ELSE x : x \in auth_sessions}

\* the rows with the hash that are inactive already
revoked(refreshTokenHash) ==
    {x \in auth_sessions : x.refresh_token_hash = refreshTokenHash /\ ~x.is_active}

Logout(refreshToken, bearer) ==
    LET sellerId == IF bearer # NoToken /\ jwtVerify(bearer, now) THEN bearer.userId
                    ELSE NULL
    IN
    /\ auth_sessions' =
         IF refreshToken = NoToken THEN auth_sessions
         ELSE deactivate(hashToken(refreshToken))
    /\ auth_logs' = IF sellerId # NULL
                    THEN logAuthEvent(auth_logs, "logout", NoPhone, sellerId, TRUE, NULL)
                    ELSE auth_logs
    /\ resp' = Response(200, NULL)
    /\ last' = [Request("logout", NoPhone, NULL, refreshToken) EXCEPT
                  !.seller = sellerId,
                  !.row = Cardinality(revoked(hashToken(refreshToken)))]
    /\ UNCHANGED <<now, otp_attempts, sellers, addresses, rest, referencing, users, inflight, issued>>

----------------------------------------------------------------------------
(* Handlers that expect an access token.                                   *)

\* GET /auth/me
Me(bearer) ==
    /\ last' = Request("me", NoPhone, NULL, bearer)
    /\ resp' = IF bearer = NoToken THEN Response(401, "Missing Bearer token")
               ELSE IF ~jwtVerify(bearer, now)
               THEN Response(401, "Invalid or expired token")
               ELSE IF bearer.type # "access"
               THEN Response(401, "Invalid token type")
               ELSE IF SellerById(bearer.userId) = {}
               THEN Response(404, "User not found")
               ELSE [Response(200, NULL) EXCEPT !.userId = bearer.userId]
    /\ UNCHANGED <<now, otp_attempts, sellers, addresses, auth_sessions, auth_logs,
                   rest, referencing, users, inflight, issued>>

\* PUT /auth/update-profile with a body of ownerName only
UpdateProfile(bearer, ownerName) ==
    LET found == SellerById(bearer.userId)
        seller == CHOOSE s \in found : TRUE
    IN
    /\ last' = Request("update-profile", NoPhone, NULL, bearer)
    /\ IF bearer = NoToken
       THEN resp' = Response(401, "Missing Bearer token") /\ UNCHANGED sellers
       ELSE IF ~jwtVerify(bearer, now)
       THEN resp' = Response(500, "Failed to update profile") /\ UNCHANGED sellers
       ELSE IF bearer.type # "access"
       THEN resp' = Response(401, "Invalid token type") /\ UNCHANGED sellers
       ELSE IF found = {}
       THEN resp' = Response(404, "Seller not found") /\ UNCHANGED sellers
       ELSE /\ sellers' = (sellers \ {seller}) \cup {[seller EXCEPT !.owner_name = ownerName]}
            /\ resp' = [Response(200, NULL) EXCEPT !.userId = bearer.userId]
    /\ UNCHANGED <<now, otp_attempts, addresses, auth_sessions, auth_logs,
                   rest, referencing, users, inflight, issued>>

\* authMiddleware, mounted on /api: the status it answers with, 0 when it
\* calls next()
authMiddleware(bearer) ==
    IF bearer = NoToken THEN Response(401, "Missing Bearer token")
    ELSE IF ~jwtVerify(bearer, now) THEN Response(401, "Invalid or expired token")
    ELSE [Response(0, NULL) EXCEPT !.userId = bearer.userId]

\* GET /api/sellers/:id behind authMiddleware
ApiGetSeller(bearer, id) ==
    LET mw == authMiddleware(bearer)
    IN
    /\ last' = [Request("api-get", NoPhone, NULL, bearer) EXCEPT !.seller = id]
    /\ resp' = IF mw.status # 0 THEN mw
               ELSE IF SellerById(id) = {} THEN Response(404, "Not found")
               ELSE [Response(200, NULL) EXCEPT !.userId = id]
    /\ UNCHANGED <<now, otp_attempts, sellers, addresses, auth_sessions, auth_logs,
                   rest, referencing, users, inflight, issued>>

\* PUT /api/sellers/:id behind authMiddleware, with the body
\* {account_status}: UPDATE sellers SET account_status = $1 WHERE seller_id = $2
ApiPutSeller(bearer, id, accountStatus) ==
    LET mw == authMiddleware(bearer)
    IN
    /\ last' = [Request("api-put", NoPhone, NULL, bearer) EXCEPT !.seller = id]
    /\ IF mw.status # 0 THEN resp' = mw /\ UNCHANGED sellers
       ELSE IF SellerById(id) = {}
       THEN resp' = Response(404, "Not found") /\ UNCHANGED sellers
       ELSE /\ resp' = [Response(200, NULL) EXCEPT !.userId = id]
            /\ sellers' = {IF x.seller_id = id
                           THEN [x EXCEPT !.account_status = accountStatus]
                           ELSE x : x \in sellers}
    /\ UNCHANGED <<now, otp_attempts, addresses, auth_sessions, auth_logs,
                   rest, referencing, users, inflight, issued>>

----------------------------------------------------------------------------
(* Seller deletion.  The tables of one transaction are a record db; a      *)
(* statement maps a db to a db, or fails.                                  *)

CurrentDb ==
    [sellers |-> sellers, addresses |-> addresses, auth_sessions |-> auth_sessions,
     auth_logs |-> auth_logs, rest |-> rest]

\* DELETE FROM ${table} WHERE seller_id = $1 / WHERE rest_id = $1
DeleteFrom(db, table, sellerId) ==
    IF table = "auth_sessions"
    THEN [db EXCEPT !.auth_sessions = {x \in @ : x.seller_id # sellerId}]
    ELSE IF table = "auth_logs"
    THEN [db EXCEPT !.auth_logs = {x \in @ : x.seller_id # sellerId}]
    ELSE [db EXCEPT !.rest[table] = {x \in @ : x.rest_id # sellerId}]

\* auth_logs.seller_id REFERENCES sellers(seller_id): no ON DELETE action, so
\* the delete of a referenced sellers row is refused
sellerReferenced(db, sellerId) ==
    /\ \E s \in db.sellers : s.seller_id = sellerId
    /\ \E l \in db.auth_logs : l.seller_id = sellerId

\* DELETE FROM sellers WHERE seller_id = $1, with
\* auth_sessions.seller_id REFERENCES sellers(seller_id) ON DELETE CASCADE
DeleteSeller(db, sellerId) ==
    [db EXCEPT !.sellers = {s \in @ : s.seller_id # sellerId},
               !.auth_sessions = {x \in @ : x.seller_id # sellerId}]

\* DELETE FROM addresses WHERE address_id = $1, with
\* sellers.address_id REFERENCES addresses(address_id) ON DELETE SET NULL
DeleteAddress(db, addressId) ==
    [db EXCEPT !.addresses = {a \in @ : a.address_id # addressId},
               !.sellers = {IF x.address_id = addressId
                            THEN [x EXCEPT !.address_id = NoId] ELSE x : x \in @}]

relatedTables_noRating == <<"collection", "likes", "menu", "order_list", "orders">>

\* the rest_id tables in the order of the loop
relatedTables == <<"collection", "likes", "menu", "order_list", "orders", "rating">>

\* SELECT address_id FROM sellers WHERE seller_id = $1
addressOf(db, sellerId) ==
    LET found == {s \in db.sellers : s.seller_id = sellerId}
    IN IF found = {} THEN NoId ELSE (CHOOSE s \in found : TRUE).address_id

\* SELECT COUNT(*) FROM sellers WHERE address_id = $1
otherSellers(db, addressId) ==
    Cardinality({s \in db.sellers : s.address_id = addressId})

deleteAddressToo_always(addressId, count) == addressId # NoId

\* if (addressId) ... if (parseInt(otherSellers[0].count) === 0)
deleteAddressToo(addressId, count) == addressId # NoId /\ count = 0

\* the db after the first n DELETEs of the list tables
RECURSIVE DeleteAll(_, _, _, _)
DeleteAll(db, tables, n, sellerId) ==
    IF n = 0 THEN db
    ELSE DeleteFrom(DeleteAll(db, tables, n - 1, sellerId), tables[n], sellerId)

rollbackTransaction_keep(before, work) == work

\* queryRunner.rollbackTransaction()
rollbackTransaction(before, work) == before

\* handleSellerDeletion: the DELETEs over fkTables and relatedTables, the
\* address_id, the sellers row, the address; statement number fail (0: none)
\* is made to throw.  The result: the db left behind and the error thrown.
handleSellerDeletion(before, sellerId, fkTables, fail) ==
    LET tables == fkTables \o relatedTables
        n == Len(tables)
        swept == DeleteAll(before, tables, n, sellerId)
        addressId == addressOf(swept, sellerId)
        gone == DeleteSeller(swept, sellerId)
        count == otherSellers(gone, addressId)
        done == IF deleteAddressToo(addressId, count)
                THEN DeleteAddress(gone, addressId) ELSE gone
        thrown(work, error) ==
            [db |-> rollbackTransaction(before, work), error |-> error,
             addressId |-> addressId]
    IN IF fail \in 1..n
       THEN thrown(DeleteAll(before, tables, fail - 1, sellerId), "query failed")
       ELSE IF fail = n + 1 THEN thrown(swept, "query failed")
       ELSE IF fail = n + 2 THEN thrown(swept, "query failed")
       ELSE IF sellerReferenced(swept, sellerId)
       THEN thrown(swept, "violates foreign key constraint")
       ELSE IF addressId # NoId /\ fail = n + 3 THEN thrown(gone, "query failed")
       ELSE IF deleteAddressToo(addressId, count) /\ fail = n + 4
       THEN thrown(gone, "query failed")
       ELSE IF fail = n + 5 THEN thrown(done, "commit failed")
       ELSE [db |-> done, error |-> NULL, addressId |-> addressId]

\* router.delete('/:id') of a table router, for the table sellers
DeleteRow(sellerId, fkTables, fail, op) ==
    LET r == handleSellerDeletion(CurrentDb, sellerId, fkTables, fail)
    IN /\ sellers' = r.db.sellers
       /\ addresses' = r.db.addresses
       /\ auth_sessions' = r.db.auth_sessions
       /\ auth_logs' = r.db.auth_logs
       /\ rest' = r.db.rest
       /\ resp' = IF r.error = NULL THEN Response(204, NULL)
                  ELSE Response(500, r.error)
       /\ last' = [Request(op, NoPhone, NULL, NoToken) EXCEPT
                     !.seller = sellerId, !.row = r.addressId, !.recent = fail]
       /\ UNCHANGED <<now, otp_attempts, referencing, users, inflight, issued>>

\* DELETE /api/sellers/:id
ApiDeleteSeller(sellerId, fail) ==
    DeleteRow(sellerId, <<"auth_sessions">>, fail, "api-delete")

\* DELETE /test/sellers/:id: the tables with a foreign key to
\* sellers.seller_id come from the schema file (getReferencingRelations)
TestDeleteSeller(sellerId, fail) ==
    DeleteRow(sellerId, referencing, fail, "test-delete")

----------------------------------------------------------------------------
(* Requests in flight.  A handler gives up control at every await, so the  *)
(* queries of two requests interleave; inflight holds the requests that    *)
(* are between two of their queries, with the values they have read.       *)

Remove(seq, i) == SubSeq(seq, 1, i - 1) \o SubSeq(seq, i + 1, Len(seq))

\* send-otp up to the rate-limit SELECT; a request that passes every check
\* goes on to the SMS call and the INSERT with the count it has read
SendOtpCheck(phoneNumber, otp) ==
    LET found == SellersByPhone(phoneNumber)
        isSignup == found = {}
        seller == IF isSignup THEN NULL ELSE (CHOOSE s \in found : TRUE)
        sid == IF isSignup THEN NULL ELSE seller.seller_id
        count == recentAttempts(phoneNumber)
        req == [Request("send-otp", phoneNumber, otp, NoToken) EXCEPT !.recent = count]
        answer(status, error, logged) ==
            /\ auth_logs' = logAuthEvent(auth_logs, "otp_request", phoneNumber,
                                         IF status = 400 THEN NULL ELSE sid,
                                         FALSE, logged)
            /\ resp' = Response(status, error)
            /\ last' = req
            /\ UNCHANGED inflight
    IN
    /\ IF Len(phoneNumber) < MinPhoneLen
       THEN answer(400, "Valid phone number required", "Invalid phone number")
       ELSE IF suspended(isSignup, seller)
       THEN answer(403, "Account is suspended", "Account suspended")
       ELSE IF rateLimited(count)
       THEN answer(429, "Too many OTP requests. Try again later.",
                   "Rate limit exceeded")
       ELSE /\ inflight' = Append(inflight,
                              [op |-> "send-otp", phone |-> phoneNumber, otp |-> otp,
                               isSignup |-> isSignup, seller |-> sid,
                               count |-> count, expires |-> now + OtpTtl])
            /\ UNCHANGED <<auth_logs, resp, last>>
    /\ UNCHANGED <<now, otp_attempts, sellers, addresses, auth_sessions, rest,
                   referencing, users, issued>>

\* the rest of send-otp for the request at position i: the SMS call, the
\* INSERT, the log entry and the response
SendOtpStore(i, net) ==
    LET r == inflight[i]
        sms == send2FactorOTP(r.phone, r.otp, net)
        id == Len(otp_attempts) + 1
    IN
    /\ r.op = "send-otp"
    /\ otp_attempts' = Append(otp_attempts,
                          [OtpRow(id, r.phone, r.otp, r.isSignup, sms) EXCEPT
                             !.expires_at = r.expires])
    /\ auth_logs' = logAuthEvent(auth_logs, "otp_sent", r.phone, r.seller,
                                 sms.success, sms.error)
    /\ resp' = [Response(200, NULL) EXCEPT
                  !.isSignup = r.isSignup,
                  !.smsProvider = IF sms.success THEN "2factor" ELSE "console",
                  !.smsStatus = IF sms.success THEN "sent" ELSE "fallback"]
    /\ last' = [Request("send-otp", r.phone, r.otp, NoToken) EXCEPT
                  !.recent = r.count, !.sms = sms.called, !.row = id]
    /\ inflight' = Remove(inflight, i)
    /\ UNCHANGED <<now, sellers, addresses, auth_sessions, rest, referencing, users, issued>>

\* verify-otp up to the check of the failure counter: the SELECT of the row
\* and the two early answers; otherwise the request goes on with the row as
\* it has read it
VerifyOtpRead(phoneNumber, otp, signupData) ==
    LET id == mostRecentUnexpired(phoneNumber)
        otpRecord == otp_attempts[id]
        req == [Request("verify-otp", phoneNumber, otp, NoToken) EXCEPT !.row = id]
        answer(error, logged) ==
            /\ auth_logs' = logAuthEvent(auth_logs, "otp_verify", phoneNumber, NULL,
                                         FALSE, logged)
            /\ resp' = Response(400, error)
            /\ last' = req
            /\ UNCHANGED inflight
    IN
    /\ IF id = 0
       THEN answer("No valid OTP found or OTP expired", "No valid OTP found")
       ELSE IF tooManyAttempts(otpRecord)
       THEN answer("Too many failed attempts", "Too many attempts")
       ELSE /\ inflight' = Append(inflight,
                              [op |-> "verify-otp", pc |-> "compare",
                               phone |-> phoneNumber, otp |-> otp,
                               signupData |-> signupData, otpRecord |-> otpRecord,
                               addressId |-> NoId, menuId |-> NoId])
            /\ UNCHANGED <<auth_logs, resp, last>>
    /\ UNCHANGED <<now, otp_attempts, sellers, addresses, auth_sessions, rest,
                   referencing, users, issued>>

\* the comparison of the code with the row that was read, then
\* UPDATE otp_attempts SET attempts = attempts + 1, or SET verified_at
VerifyOtpCompare(i, net) ==
    LET r == inflight[i]
        id == r.otpRecord.id
        method == otpVerification(r.otpRecord, r.otp, net)
    IN
    /\ r.op = "verify-otp" /\ r.pc = "compare"
    /\ IF method = "none"
       THEN /\ otp_attempts' = [otp_attempts EXCEPT ![id].attempts = @ + 1]
            /\ auth_logs' = logAuthEvent(auth_logs, "otp_verify", r.phone, NULL,
                                         FALSE, "Invalid OTP")
            /\ resp' = Response(400, "Invalid OTP")
            /\ last' = [Request("verify-otp", r.phone, r.otp, NoToken) EXCEPT
                          !.row = id]
            /\ inflight' = Remove(inflight, i)
       ELSE /\ otp_attempts' =
                 [otp_attempts EXCEPT ![id].verified_at = now,
                    ![id].sms_status = IF method = "2factor" THEN "verified_2factor"
                                       ELSE "verified_local"]
            /\ inflight' = [inflight EXCEPT ![i].pc = "account"]
            /\ UNCHANGED <<auth_logs, resp, last>>
    /\ UNCHANGED <<now, sellers, addresses, auth_sessions, rest, referencing, users, issued>>

\* after the code check: a signup reads get_next_address_id() and the next
\* menu id, a login reads the seller, stamps it and gets its tokens
VerifyOtpAccount(i) ==
    LET r == inflight[i]
        req == [Request("verify-otp", r.phone, r.otp, NoToken) EXCEPT
                  !.row = r.otpRecord.id]
        found == SellersByPhone(r.phone)
    IN
    /\ r.op = "verify-otp" /\ r.pc = "account"
    /\ IF isNewUser(r.otpRecord, r.signupData)
       THEN IF r.signupData.ownerName = NULL \/ r.signupData.restaurantName = NULL
            THEN /\ resp' = Response(400,
                               "Owner name and restaurant name required for signup")
                 /\ last' = req
                 /\ inflight' = Remove(inflight, i)
                 /\ UNCHANGED <<sellers, auth_sessions, auth_logs, issued>>
            ELSE /\ inflight' = [inflight EXCEPT ![i].pc = "insert",
                                   ![i].addressId = get_next_address_id,
                                   ![i].menuId = nextMenuId]
                 /\ UNCHANGED <<sellers, auth_sessions, auth_logs, issued, resp, last>>
       ELSE IF found = {}
       THEN /\ resp' = Response(404, "Seller not found")
            /\ last' = req
            /\ inflight' = Remove(inflight, i)
            /\ UNCHANGED <<sellers, auth_sessions, auth_logs, issued>>
       ELSE LET seller == CHOOSE x \in found : TRUE
                updated == [seller EXCEPT !.last_login = now, !.phone_verified = TRUE]
            IN /\ sellers' = (sellers \ {seller}) \cup {updated}
               /\ IssueTokens(seller, r.phone, FALSE, req,
                              logAuthEvent(auth_logs, "login", r.phone,
                                           seller.seller_id, TRUE, NULL))
               /\ inflight' = Remove(inflight, i)
    /\ UNCHANGED <<now, otp_attempts, addresses, rest, referencing, users>>

\* the INSERT INTO sellers of a signup with the ids read before, the trigger
\* create_seller_address, and the tokens
VerifyOtpInsert(i) ==
    LET r == inflight[i]
        req == [Request("verify-otp", r.phone, r.otp, NoToken) EXCEPT
                  !.row = r.otpRecord.id]
        sellerId == CHOOSE x \in NewSellerIds : x \notin UsedSellerIds
        seller == [seller_id |-> sellerId, rest_phone |-> r.phone,
                   owner_name |-> r.signupData.ownerName,
                   restaurant_name |-> r.signupData.restaurantName,
                   phone_verified |-> TRUE, account_status |-> "active",
                   address_id |-> r.addressId, menu_id |-> r.menuId,
                   last_login |-> NoTime]
    IN
    /\ r.op = "verify-otp" /\ r.pc = "insert"
    /\ NewSellerIds \ UsedSellerIds # {}
    /\ IF unique_phone(r.phone)
       THEN /\ auth_logs' = logAuthEvent(auth_logs, "otp_verify", r.phone, NULL,
                                         FALSE, "duplicate key value")
            /\ resp' = Response(500, "Failed to verify OTP")
            /\ last' = req
            /\ UNCHANGED <<sellers, addresses, auth_sessions, issued>>
       ELSE /\ sellers' = sellers \cup {seller}
            /\ addresses' = create_seller_address(addresses, r.addressId, sellerId)
            /\ IssueTokens(seller, r.phone, TRUE, req,
                           logAuthEvent(auth_logs, "signup", r.phone, sellerId,
                                        TRUE, NULL))
    /\ inflight' = Remove(inflight, i)
    /\ UNCHANGED <<now, otp_attempts, rest, referencing, users>>

\* handleSellerDeletion as a transaction among others (READ COMMITTED): its
\* statements see the committed rows without the rows it has deleted itself,
\* and its deletes reach the tables at COMMIT.

\* the tables as the transaction of a deletion of sellerId sees them after
\* its DELETEs over the lists and of the sellers row
SeenBy(sellerId, fkTables) ==
    LET tables == fkTables \o relatedTables
    IN DeleteSeller(DeleteAll(CurrentDb, tables, Len(tables), sellerId), sellerId)

\* from startTransaction to the DELETE of the sellers row; a row of
\* auth_logs that is left makes the DELETE fail, and the catch block rolls
\* back and rethrows
DeletionBegin(sellerId, fkTables, op) ==
    LET tables == fkTables \o relatedTables
        swept == DeleteAll(CurrentDb, tables, Len(tables), sellerId)
        addressId == addressOf(swept, sellerId)
        req == [Request(op, NoPhone, NULL, NoToken) EXCEPT
                  !.seller = sellerId, !.row = addressId]
    IN
    /\ IF sellerReferenced(swept, sellerId)
       THEN /\ resp' = Response(500, "violates foreign key constraint")
            /\ last' = req
            /\ UNCHANGED inflight
       ELSE /\ inflight' = Append(inflight,
                              [op |-> op, pc |-> "count", seller |-> sellerId,
                               fkTables |-> fkTables, addressId |-> addressId,
                               deleteAddress |-> FALSE])
            /\ UNCHANGED <<resp, last>>
    /\ UNCHANGED <<now, otp_attempts, sellers, addresses, auth_sessions, auth_logs,
                   rest, referencing, users, issued>>

\* SELECT COUNT(*) FROM sellers WHERE address_id = $1, and the decision to
\* delete the address
DeletionCount(i) ==
    LET r == inflight[i]
        count == otherSellers(SeenBy(r.seller, r.fkTables), r.addressId)
    IN
    /\ r.op \in {"api-delete", "test-delete"} /\ r.pc = "count"
    /\ inflight' = [inflight EXCEPT ![i].pc = "commit",
                       ![i].deleteAddress = deleteAddressToo(r.addressId, count)]
    /\ UNCHANGED <<now, otp_attempts, sellers, addresses, auth_sessions, auth_logs,
                   rest, referencing, users, issued, resp, last>>

\* commitTransaction and the answer 204
DeletionCommit(i) ==
    LET r == inflight[i]
        gone == SeenBy(r.seller, r.fkTables)
        done == IF r.deleteAddress THEN DeleteAddress(gone, r.addressId) ELSE gone
    IN
    /\ r.op \in {"api-delete", "test-delete"} /\ r.pc = "commit"
    /\ sellers' = done.sellers
    /\ addresses' = done.addresses
    /\ auth_sessions' = done.auth_sessions
    /\ auth_logs' = done.auth_logs
    /\ rest' = done.rest
    /\ resp' = Response(204, NULL)
    /\ last' = [Request(r.op, NoPhone, NULL, NoToken) EXCEPT
                  !.seller = r.seller, !.row = r.addressId]
    /\ inflight' = Remove(inflight, i)
    /\ UNCHANGED <<now, otp_attempts, referencing, users, issued>>

----------------------------------------------------------------------------
(* The authentication flow: requests handled one after another.            *)

Seller(id, phone, owner, status, addressId, menuId) ==
    [seller_id |-> id, rest_phone |-> phone, owner_name |-> owner,
     restaurant_name |-> "Cafe", phone_verified |-> TRUE, account_status |-> status,
     address_id |-> addressId, menu_id |-> menuId, last_login |-> NoTime]

Nets == {"ok", "error"}
SignupInputs == {NoSignup, [ownerName |-> "Asha", restaurantName |-> "Dhaba"]}

\* what a client can present: nothing, a token it was issued, or a token with
\* the same payload and a signature not made with JWT_SECRET
TokenInputs == {NoToken} \cup issued \cup {[t EXCEPT !.sig = "forged"] : t \in issued}

Init ==
    /\ now = 0
    /\ otp_attempts = <<>>
    /\ sellers = {Seller("SELLER_1", PhoneOld, "Ravi", "active", 1, 1),
                  Seller("SELLER_2", PhoneSusp, "Mina", "suspended", 2, 1)}
    /\ addresses = {[address_id |-> 1, rest_id |-> "SELLER_1"],
                    [address_id |-> 2, rest_id |-> "SELLER_2"]}
    /\ auth_sessions = {}
    /\ auth_logs = {}
    /\ rest = [t \in RestIdTables |-> {}]
    /\ referencing = <<>>
    /\ inflight = <<>>
    /\ users = InitialUsers
    /\ issued = {}
    /\ resp = Response(0, NULL)
    /\ last = Request("none", NoPhone, NULL, NoToken)

\* Spec: login by OTP on the phone of an existing seller; the SMS provider
\* may be down at send-otp and answers at verify-otp
Next ==
    \/ \E net \in Nets :
         Len(otp_attempts) < MaxRows /\ SendOtp(PhoneOld, "1234", net)
    \/ \E otp \in Codes, sd \in SignupInputs :
         VerifyOtp(PhoneOld, otp, sd, "ok")
    \/ Tick(OtpTtl, OtpTtl)

Spec == Init /\ [][Next]_vars

\* SpecSignup: signup by OTP on a phone no seller has, then login on it
NextSignup ==
    \/ Len(otp_attempts) < MaxRows /\ SendOtp(PhoneNew, "1234", "ok")
    \/ \E otp \in Codes, sd \in SignupInputs :
         VerifyOtp(PhoneNew, otp, sd, "ok")
    \/ Tick(OtpTtl, OtpTtl)

SpecSignup == Init /\ [][NextSignup]_vars

\* SpecLatest: several send-otp for one phone, each with its own code
NextLatest ==
    \/ \E otp \in Codes :
         Len(otp_attempts) < MaxRows /\ SendOtp(PhoneOld, otp, "error")
    \/ \E otp \in Codes : VerifyOtp(PhoneOld, otp, NoSignup, "ok")
    \/ Tick(OtpTtl, OtpTtl)

SpecLatest == Init /\ [][NextLatest]_vars

\* SpecFallback: sellers and end users ask for codes while the SMS provider
\* answers, fails or times out
Outcomes == {"ok", "error", "timeout"}

NextFallback ==
    \/ \E p \in {PhoneOld, PhoneNew} : \E net \in Outcomes :
         Len(otp_attempts) < MaxRows /\ SendOtp(p, "1234", net)
    \/ \E p \in {PhoneOld, PhoneNew} : \E net \in Outcomes :
         Len(otp_attempts) < MaxRows /\ UserSendOtp(p, "1234", net)
    \/ Tick(OtpTtl, OtpTtl)

SpecFallback == Init /\ [][NextFallback]_vars

\* the formatting test: send2FactorOTP(number, '0000') on a list of numbers;
\* the result of the call is kept in resp.error and last.sms
TestPhoneFormat(number, net) ==
    LET r == send2FactorOTP(number, "0000", net)
    IN /\ resp' = Response(0, r.error)
       /\ last' = [Request("send2FactorOTP", number, "0000", NoToken) EXCEPT
                     !.sms = r.called]
       /\ UNCHANGED <<now, otp_attempts, sellers, addresses, auth_sessions,
                      auth_logs, rest, referencing, users, inflight, issued>>

\* ways a client writes the number 9325235592, and numbers of another length
NinePhone == SubSeq(PhoneOld, 1, 9)
Prefixes == {<<>>, <<"+", "9", "1">>, <<"9", "1", "-">>, <<"9", "1">>, <<"0">>,
             <<"+", "1">>, <<"a", "b", "c">>, <<" ">>, <<"+", "9", "1", " ">>,
             <<"0", "0", "9", "1">>}
Bodies == {PhoneOld, PhoneNew, NinePhone, PhoneOld \o <<"7">>,
           SubSeq(PhoneOld, 1, 4) \o <<"-">> \o SubSeq(PhoneOld, 5, 10),
           PhoneOld \o <<"d", "e", "f">>, NinePhone \o <<" ">>}
PhoneFormats == {p \o b : p \in Prefixes, b \in Bodies}

\* SpecPhone: the formatting test over the phone formats
NextPhone == \E number \in PhoneFormats : \E net \in Outcomes :
                TestPhoneFormat(number, net)

SpecPhone == Init /\ [][NextPhone]_vars

\* SpecRate: send-otp requests over two hours
NextRate ==
    \/ \E p \in {PhoneOld, PhoneNew, PhoneSusp, PhoneShort} :
         Len(otp_attempts) < MaxRateRows /\ SendOtp(p, "1234", "ok")
    \/ Tick(RateWindow \div 2, RateWindow)

SpecRate == Init /\ [][NextRate]_vars

\* SpecTok: one login, then the token handlers while the tokens age
NextTok ==
    \/ otp_attempts = <<>> /\ SendOtp(PhoneOld, "1234", "error")
    \/ auth_sessions = {} /\ VerifyOtp(PhoneOld, "1234", NoSignup, "error")
    \/ \E t \in TokenInputs : Refresh(t)
    \/ \E t \in TokenInputs, b \in TokenInputs : Logout(t, b)
    \/ \E b \in TokenInputs : Me(b)
    \/ \E b \in TokenInputs : UpdateProfile(b, "Asha")
    \/ \E b \in TokenInputs : ApiGetSeller(b, "SELLER_1")
    \/ Tick(AccessTtl, AccessTtl)
    \/ Tick(RefreshTtl, RefreshTtl + AccessTtl)

SpecTok == Init /\ [][NextTok]_vars

\* SpecSendRace: up to MaxInflight send-otp requests for one phone at a time
NextSendRace ==
    \/ /\ Len(inflight) < MaxInflight
       /\ Len(otp_attempts) + Len(inflight) < MaxRateRows
       /\ SendOtpCheck(PhoneOld, "1234")
    \/ \E i \in 1..Len(inflight) : SendOtpStore(i, "ok")
    \/ Tick(RateWindow \div 2, RateWindow)

SpecSendRace == Init /\ [][NextSendRace]_vars

\* SpecVerifyRace: one code is sent, then up to MaxInflight verify-otp
\* requests for the phone are in flight at a time
NextVerifyRace ==
    \/ otp_attempts = <<>> /\ \E net \in Nets : SendOtp(PhoneOld, "1234", net)
    \/ /\ Len(inflight) < MaxInflight
       /\ auth_sessions = {}
       /\ \E otp \in Codes : VerifyOtpRead(PhoneOld, otp, NoSignup)
    \/ \E i \in 1..Len(inflight) : VerifyOtpCompare(i, "ok")
    \/ \E i \in 1..Len(inflight) : VerifyOtpAccount(i)
    \/ Tick(OtpTtl, OtpTtl)

SpecVerifyRace == Init /\ [][NextVerifyRace]_vars

\* SpecSuspend: a seller logs in and uses its tokens while its
\* account_status is changed through the table route
NextSuspend ==
    \/ Len(otp_attempts) < MaxRows /\ SendOtp(PhoneOld, "1234", "error")
    \/ VerifyOtp(PhoneOld, "1234", NoSignup, "error")
    \/ \E t \in TokenInputs : Refresh(t)
    \/ \E b \in TokenInputs : \E st \in {"active", "suspended"} :
         ApiPutSeller(b, "SELLER_1", st)
    \/ Tick(AccessTtl, AccessTtl)

SpecSuspend == Init /\ [][NextSuspend]_vars

\* SpecSignupRace: two new phones get a code each and sign up, with up to
\* MaxInflight verify-otp requests in flight at a time
SignupPhones == {PhoneNew, PhoneThird}

NextSignupRace ==
    \/ \E p \in SignupPhones :
         /\ \A i \in 1..Len(otp_attempts) : otp_attempts[i].phone_number # p
         /\ SendOtp(p, "1234", "error")
    \/ \E p \in SignupPhones :
         /\ Len(inflight) < MaxInflight
         /\ \A i \in 1..Len(inflight) : inflight[i].phone # p
         /\ SellersByPhone(p) = {}
         /\ VerifyOtpRead(p, "1234", [ownerName |-> "Asha", restaurantName |-> "Dhaba"])
    \/ \E i \in 1..Len(inflight) : VerifyOtpCompare(i, "error")
    \/ \E i \in 1..Len(inflight) : VerifyOtpAccount(i)
    \/ \E i \in 1..Len(inflight) : VerifyOtpInsert(i)
    \/ Tick(OtpTtl, OtpTtl)

SpecSignupRace == Init /\ [][NextSignupRace]_vars

\* SpecGone: a seller asks for codes, logs in, refreshes, and is deleted
\* through either delete route; the schema file may list the tables with a
\* foreign key to sellers
InitGone ==
    /\ now = 0
    /\ otp_attempts = <<>>
    /\ sellers = {Seller("SELLER_1", PhoneOld, "Ravi", "active", 1, 1),
                  Seller("SELLER_2", PhoneSusp, "Mina", "suspended", 2, 1)}
    /\ addresses = {[address_id |-> 1, rest_id |-> "SELLER_1"],
                    [address_id |-> 2, rest_id |-> "SELLER_2"]}
    /\ auth_sessions = {}
    /\ auth_logs = {}
    /\ rest = [t \in RestIdTables |-> {}]
    /\ referencing \in {<<>>, <<"auth_sessions", "auth_logs">>}
    /\ inflight = <<>>
    /\ users = InitialUsers
    /\ issued = {}
    /\ resp = Response(0, NULL)
    /\ last = Request("none", NoPhone, NULL, NoToken)

NextGone ==
    \/ Len(otp_attempts) < MaxRows /\ SendOtp(PhoneOld, "1234", "error")
    \/ auth_sessions = {} /\ VerifyOtp(PhoneOld, "1234", NoSignup, "error")
    \/ \E t \in issued : Refresh(t)
    \/ ApiDeleteSeller("SELLER_1", 0)
    \/ TestDeleteSeller("SELLER_1", 0)
    \/ Tick(OtpTtl - 1, OtpTtl - 1)

SpecGone == InitGone /\ [][NextGone]_vars

\* SpecUser: end users ask for a code, log in or sign up, refresh, log out
NextUser ==
    \/ \E p \in {PhoneOld, PhoneNew} :
         Len(otp_attempts) < MaxRows /\ UserSendOtp(p, "1234", "error")
    \/ \E p \in {PhoneOld, PhoneNew} : \E otp \in Codes :
         issued = {} /\ UserVerifyOtp(p, otp, "error")
    \/ \E t \in TokenInputs : UserRefresh(t)
    \/ UserLogout
    \/ Tick(AccessTtl, AccessTtl)

SpecUser == Init /\ [][NextUser]_vars

\* SpecDel: deletions on a populated database
SellerIds == {"SELLER_1", "SELLER_3"}

LoginLog(id) == LogRow("login", PhoneOld, id, TRUE, NULL)

StoredSession(n, id) ==
    [session_id |-> n, seller_id |-> id, refresh_token_hash |-> hashToken(NoToken),
     expires_at |-> SessionTtl, is_active |-> TRUE, last_used |-> 0]

\* the statements of a deletion: the DELETEs of the two lists, the SELECT,
\* the sellers row, the COUNT, the address, the COMMIT
Statements(fkTables) ==
    1 .. (Len(fkTables) + Len(relatedTables) + Cardinality({"select", "seller", "count", "address", "commit"}))

Fails(fkTables) == {0} \cup Statements(fkTables)

InitDel ==
    /\ now = 0
    /\ otp_attempts = <<>>
    /\ sellers = {Seller("SELLER_1", PhoneOld, "Ravi", "active", 1, 1),
                  Seller("SELLER_2", PhoneSusp, "Mina", "suspended", 2, 1),
                  Seller("SELLER_3", PhoneNew, "Omar", "active", 1, 1)}
    /\ addresses = {[address_id |-> 1, rest_id |-> "SELLER_1"],
                    [address_id |-> 2, rest_id |-> "SELLER_2"]}
    /\ auth_sessions = {StoredSession(1, "SELLER_1"), StoredSession(2, "SELLER_3")}
    /\ auth_logs \in SUBSET {LoginLog("SELLER_1"), LoginLog("SELLER_3")}
    /\ rest = [t \in RestIdTables |-> {[id |-> 1, rest_id |-> "SELLER_1"],
                                       [id |-> 2, rest_id |-> "SELLER_3"]}]
    /\ referencing \in {<<>>, <<"auth_sessions", "auth_logs">>}
    /\ inflight = <<>>
    /\ users = InitialUsers
    /\ issued = {}
    /\ resp = Response(0, NULL)
    /\ last = Request("none", NoPhone, NULL, NoToken)

NextDel ==
    \/ \E id \in SellerIds, fail \in Fails(<<"auth_sessions">>) :
         ApiDeleteSeller(id, fail)
    \/ \E id \in SellerIds, fail \in Fails(referencing) :
         TestDeleteSeller(id, fail)

SpecDel == InitDel /\ [][NextDel]_vars

\* SpecDelRace: the deletions of the sellers run as concurrent transactions
NextDelRace ==
    \/ \E id \in SellerIds :
         /\ Len(inflight) < MaxInflight
         /\ \A i \in 1..Len(inflight) : inflight[i].seller # id
         /\ SellerById(id) # {}
         /\ \/ DeletionBegin(id, <<"auth_sessions">>, "api-delete")
            \/ DeletionBegin(id, referencing, "test-delete")
    \/ \E i \in 1..Len(inflight) : DeletionCount(i)
    \/ \E i \in 1..Len(inflight) : DeletionCommit(i)

SpecDelRace == InitDel /\ [][NextDelRace]_vars

----------------------------------------------------------------------------
(* OTP verification (Spec).                                                *)

\* the row a verify-otp request for the seller's phone is checked against
CurrentRow == mostRecentUnexpired(PhoneOld)

\* C1: an OTP row that has been marked verified is never accepted again: a
\* verify-otp request that finds an already verified row is not answered 200
C1_VerifiedNeverAcceptedAgain ==
    [][\A otp \in Codes, sd \in SignupInputs, net \in Nets :
         (/\ CurrentRow # 0
          /\ otp_attempts[CurrentRow].verified_at # NoTime
          /\ VerifyOtp(PhoneOld, otp, sd, net))
         => resp'.status # 200]_vars

\* C5: once a row has three failures, every verify-otp against it, whatever the
\* code, is answered "Too many failed attempts" and changes neither the row
\* nor the sessions nor the tokens issued; no row ever counts a fourth failure
C5_ExhaustedRowRejectsAll ==
    [][\A otp \in Codes, sd \in SignupInputs, net \in Nets :
         /\ (/\ CurrentRow # 0
             /\ otp_attempts[CurrentRow].attempts >= MaxOtpFailures
             /\ VerifyOtp(PhoneOld, otp, sd, net))
            => /\ resp'.status = 400
               /\ resp'.error = "Too many failed attempts"
               /\ resp'.accessToken = NoToken
               /\ auth_sessions' = auth_sessions
               /\ issued' = issued
               /\ otp_attempts' = otp_attempts
         /\ \A i \in 1..Len(otp_attempts') :
              otp_attempts'[i].attempts <= MaxOtpFailures]_vars

\* a request with the correct code was rejected for too many attempts
C5_Witness ==
    /\ last.op = "verify-otp"
    /\ last.row # 0
    /\ otp_attempts[last.row].attempts = MaxOtpFailures
    /\ otp_attempts[last.row].otp_hash = hashToken(last.otp)
    /\ resp.error = "Too many failed attempts"

----------------------------------------------------------------------------
(* Tokens (SpecTok).                                                       *)

SignatureValid(t) == t # NoToken /\ jwtVerify(t, now)

\* C2: a signature-valid token of type 'refresh' is rejected by GET /auth/me,
\* by PUT /auth/update-profile and by the /api routes behind authMiddleware,
\* and a signature-valid token of type 'access' is rejected by POST /auth/refresh
C2_TokenTypeIsolation ==
    [][\A t \in TokenInputs :
         /\ (SignatureValid(t) /\ t.type = "refresh")
            => /\ Me(t) => resp'.status >= 400
               /\ UpdateProfile(t, "Asha") => resp'.status >= 400
               /\ ApiGetSeller(t, "SELLER_1") => resp'.status >= 400
         /\ (SignatureValid(t) /\ t.type = "access")
            => (Refresh(t) => resp'.status >= 400)]_vars

\* the session row POST /auth/refresh requires for a token
HasLiveSession(t) ==
    \E x \in auth_sessions : /\ x.refresh_token_hash = hashToken(t)
                             /\ x.seller_id = t.userId
                             /\ x.is_active
                             /\ x.expires_at > now

\* C3: POST /auth/refresh answers 200, or issues an access token, only for a
\* token whose hash is on an active, unexpired auth_sessions row of the
\* account the token claims
C3_RefreshNeedsLiveSession ==
    [][\A t \in TokenInputs :
         (Refresh(t) /\ (resp'.status = 200 \/ issued' # issued \/
                         resp'.accessToken # NoToken))
         => HasLiveSession(t)]_vars

\* a refresh was accepted and answered with a new access token
C3_Witness ==
    /\ last.op = "refresh"
    /\ resp.status = 200
    /\ resp.accessToken \in issued
    /\ resp.accessToken.type = "access"
    /\ \E x \in auth_sessions : /\ x.refresh_token_hash = hashToken(last.token)
                                /\ x.is_active
                                /\ x.last_used = now

\* C10: a refresh failing for a bad signature, a wrong token type, a missing
\* session or an expired session is always answered with the same status and
\* the same 'Invalid or expired refresh token' message
C10_UniformRefreshError ==
    [][\A t \in TokenInputs :
         (/\ Refresh(t)
          /\ t # NoToken
          /\ \/ ~jwtVerify(t, now)
             \/ t.type # "refresh"
             \/ ~HasLiveSession(t))
         => /\ resp'.status = 401
            /\ resp'.error = "Invalid or expired refresh token"]_vars

----------------------------------------------------------------------------
(* Rate limit (SpecRate).                                                  *)

RatePhones == {PhoneOld, PhoneNew}

\* rows of a phone created within the last rolling hour
RowsInLastHour(p) ==
    {i \in 1..Len(otp_attempts) : /\ otp_attempts[i].phone_number = p
                                  /\ now - otp_attempts[i].created_at < RateWindow}

\* C4: a send-otp for a phone with fewer than 5 rows in the last hour creates
\* a row; with 5 or more it is answered 429, creates no row and does not call
\* the SMS provider
C4_RateLimitBoundary ==
    [][\A p \in RatePhones :
         SendOtp(p, "1234", "ok")
         => IF Cardinality(RowsInLastHour(p)) < RateLimit
            THEN /\ Len(otp_attempts') = Len(otp_attempts) + 1
                 /\ otp_attempts'[Len(otp_attempts')].phone_number = p
                 /\ resp'.status = 200
            ELSE /\ resp'.status = 429
                 /\ resp'.error = "Too many OTP requests. Try again later."
                 /\ otp_attempts' = otp_attempts
                 /\ last'.sms = FALSE]_vars

\* the sixth request within the hour was rejected
C4_Witness ==
    /\ last.op = "send-otp"
    /\ resp.status = 429
    /\ Cardinality(RowsInLastHour(last.phone)) = RateLimit
    /\ last.sms = FALSE

----------------------------------------------------------------------------
(* Seller deletion (SpecDel).                                              *)

\* a step of DELETE /api/sellers/:id (the request is compared first)
ApiDeleteStep(id, fail) ==
    /\ last'.op = "api-delete" /\ last'.seller = id /\ last'.recent = fail
    /\ ApiDeleteSeller(id, fail)

\* a step of DELETE /test/sellers/:id
TestDeleteStep(id, fail) ==
    /\ last'.op = "test-delete" /\ last'.seller = id /\ last'.recent = fail
    /\ TestDeleteSeller(id, fail)

\* a step of either delete route for the seller id
DeleteStep(id) ==
    \/ \E fail \in Fails(<<"auth_sessions">>) : ApiDeleteStep(id, fail)
    \/ \E fail \in Fails(referencing) : TestDeleteStep(id, fail)

\* C6: after a committed deletion of a seller, its sellers row is gone and
\* no row with its id is left in auth_sessions, collection, likes, menu,
\* order_list, orders or rating
C6_CommittedDeletionSweeps ==
    [][\A id \in SellerIds :
         (DeleteStep(id) /\ resp'.status = 204)
         => /\ \A x \in sellers' : x.seller_id # id
            /\ \A x \in auth_sessions' : x.seller_id # id
            /\ \A t \in RestIdTables : \A x \in rest'[t] : x.rest_id # id]_vars

\* a deletion committed for SELLER_1, whose rows were in every rest_id table
C6_Witness ==
    /\ last.op \in {"api-delete", "test-delete"}
    /\ last.seller = "SELLER_1"
    /\ resp.status = 204
    /\ \A x \in sellers : x.seller_id # "SELLER_1"
    /\ \A t \in RestIdTables : rest[t] # {} /\ \A x \in rest[t] : x.rest_id # "SELLER_1"

TablesUnchanged ==
    UNCHANGED <<sellers, addresses, auth_sessions, auth_logs, rest>>

\* C7: a deletion either commits or is answered 500 with every table as it
\* was before the call; a statement that throws always leads to the latter
C7_FailureRollsBack ==
    [][\A id \in SellerIds :
         /\ DeleteStep(id)
            => \/ resp'.status = 204
               \/ resp'.status = 500 /\ TablesUnchanged
         /\ \A fail \in 1..(1 + Len(relatedTables) + 2) :
              ApiDeleteStep(id, fail) => resp'.status = 500 /\ TablesUnchanged
         /\ \A fail \in 1..(Len(referencing) + Len(relatedTables) + 2) :
              TestDeleteStep(id, fail) => resp'.status = 500 /\ TablesUnchanged
         /\ \A fail \in Fails(<<"auth_sessions">>) :
              (ApiDeleteStep(id, fail) /\ sellerReferenced(CurrentDb, id))
              => resp'.status = 500 /\ TablesUnchanged]_vars

\* the COMMIT of a deletion failed and the seller has its rows in every table
C7_Witness ==
    /\ last.op \in {"api-delete", "test-delete"}
    /\ resp.status = 500
    /\ resp.error = "commit failed"
    /\ \E x \in sellers : x.seller_id = last.seller
    /\ \A t \in RestIdTables : \E x \in rest[t] : x.rest_id = last.seller

\* C8: a committed deletion removes and modifies no auth_logs row
C8_AuditLogsRetained ==
    [][\A id \in SellerIds :
         (DeleteStep(id) /\ resp'.status = 204) => auth_logs' = auth_logs]_vars

\* C9: a committed deletion of a seller with an address deletes that address
\* exactly when no other sellers row has the same address_id, and deletes
\* no other address
C9_AddressDeletedIffUnshared ==
    [][\A id \in SellerIds :
         (DeleteStep(id) /\ resp'.status = 204)
         => LET a == addressOf(CurrentDb, id)
                shared == \E x \in sellers : x.seller_id # id /\ x.address_id = a
            IN /\ \A r \in addresses :
                    r \in addresses' <=> (r.address_id # a \/ a = NoId \/ shared)
               /\ addresses' \subseteq addresses]_vars

\* both sellers of address 1 are deleted, the second deletion took the address
C9_Witness ==
    /\ last.op \in {"api-delete", "test-delete"}
    /\ resp.status = 204
    /\ last.row = 1
    /\ \A x \in sellers : x.seller_id \notin {"SELLER_1", "SELLER_3"}
    /\ \A r \in addresses : r.address_id # 1
    /\ \E r \in addresses : r.address_id = 2

----------------------------------------------------------------------------
(* Signup (SpecSignup).                                                    *)

----------------------------------------------------------------------------
(* Latest send wins (SpecLatest).                                          *)

\* the unexpired rows of a phone
Unexpired(p) ==
    {i \in 1..Len(otp_attempts) : /\ otp_attempts[i].phone_number = p
                                  /\ otp_attempts[i].expires_at > now}

\* row i is the last one inserted among the unexpired rows of a phone
Newest(p, i) ==
    /\ i \in Unexpired(p)
    /\ \A j \in Unexpired(p) :
         /\ otp_attempts[j].created_at <= otp_attempts[i].created_at
         /\ j <= i

----------------------------------------------------------------------------
(* Logout (SpecTok).                                                       *)

\* C13: a logout is answered 200 whatever the tokens, and leaves every
\* session row with the hash of the refresh token it was given inactive,
\* also when the row was inactive before (a step of Logout(t, b) records t
\* as the token of the request)
C13_LogoutIdempotent ==
    [][\A t \in {last'.token} : \A b \in TokenInputs :
         (last'.op = "logout" /\ Logout(t, b))
         => /\ resp'.status = 200
            /\ t # NoToken
               => \A x \in auth_sessions' :
                    x.refresh_token_hash = hashToken(t) => ~x.is_active
            /\ \A x \in auth_sessions' :
                 x.refresh_token_hash # hashToken(t)
                 => x \in auth_sessions]_vars

\* a logout with the refresh token of a session revoked before
C13_Witness ==
    /\ last.op = "logout"
    /\ last.token \in issued
    /\ last.token.type = "refresh"
    /\ last.row > 0
    /\ resp.status = 200
    /\ \E x \in auth_sessions : x.refresh_token_hash = hashToken(last.token)
    /\ \A x \in auth_sessions :
         x.refresh_token_hash = hashToken(last.token) => ~x.is_active

----------------------------------------------------------------------------
(* No rotation on use (SpecTok).                                           *)

\* the rows of a set of sessions without their last_used
Grants(S) == {[x EXCEPT !.last_used = 0] : x \in S}

\* C14: a refresh changes no session row but for last_used and issues access
\* tokens only; a signature-valid refresh token with a live session of an
\* existing seller is accepted every time, and without a live session (after
\* logout or expiry) it is rejected; an inactive row never becomes active
C14_NoRotation ==
    [][/\ \A t \in {last'.token} :
           (last'.op = "refresh" /\ Refresh(t))
           => /\ Grants(auth_sessions') = Grants(auth_sessions)
              /\ resp'.refreshToken = NoToken
              /\ \A a \in issued' \ issued : a.type = "access"
              /\ (/\ SignatureValid(t) /\ t.type = "refresh"
                  /\ HasLiveSession(t) /\ SellerById(t.userId) # {})
                 => resp'.status = 200
              /\ ~HasLiveSession(t) => resp'.status >= 400
       /\ \A x \in auth_sessions : \A y \in auth_sessions' :
           (x.session_id = y.session_id /\ ~x.is_active) => ~y.is_active]_vars

\* the session of the login at time 0 has served two refreshes: two access
\* tokens were issued later than the login
C14_Witness ==
    /\ last.op = "refresh"
    /\ resp.status = 200
    /\ \E x \in auth_sessions : /\ x.refresh_token_hash = hashToken(last.token)
                                /\ x.expires_at = SessionTtl
                                /\ x.is_active
    /\ \E a1 \in issued : \E a2 \in issued :
         /\ a1 # a2
         /\ a1.type = "access" /\ a2.type = "access"
         /\ a1.iat > 0 /\ a2.iat > 0

----------------------------------------------------------------------------
(* Fresh claims (SpecTok).                                                 *)

\* C15: a refresh with a refresh token verify-otp issued, its session live,
\* succeeds, and the new access token carries the phone, owner name,
\* restaurant name, address id and menu id the sellers row has at that time
C15_RefreshCarriesCurrentClaims ==
    [][\A t \in {last'.token} :
         (last'.op = "refresh" /\ Refresh(t))
         => /\ (/\ t \in issued /\ t.type = "refresh" /\ jwtVerify(t, now)
                /\ HasLiveSession(t) /\ SellerById(t.userId) # {})
               => resp'.status = 200
            /\ resp'.status = 200
               => \E s \in sellers :
                    /\ s.seller_id = t.userId
                    /\ resp'.accessToken.userId = s.seller_id
                    /\ resp'.accessToken.phone = s.rest_phone
                    /\ resp'.accessToken.name = s.owner_name
                    /\ resp'.accessToken.restaurant = s.restaurant_name
                    /\ resp'.accessToken.addressId = s.address_id
                    /\ resp'.accessToken.menuId = s.menu_id
                    /\ resp'.accessToken.type = "access"
                    /\ resp'.accessToken.iat = now]_vars

\* a refresh answered with the owner name the profile was changed to after
\* the login had issued its access token
C15_Witness ==
    /\ last.op = "refresh"
    /\ resp.status = 200
    /\ \E s \in sellers : /\ s.seller_id = last.token.userId
                          /\ resp.accessToken.name = s.owner_name
    /\ \E a \in issued : /\ a.type = "access"
                         /\ a.userId = last.token.userId
                         /\ a.iat = last.token.iat
                         /\ a.name # resp.accessToken.name

----------------------------------------------------------------------------
(* The branch of verify-otp (SpecSignup).                                  *)

\* what the signup branch can answer
SignupOutcome(r) ==
    \/ r.status = 400 /\ r.error = "Owner name and restaurant name required for signup"
    \/ r.status = 500
    \/ r.status = 200 /\ r.isSignup

\* what the login branch can answer
LoginOutcome(r) ==
    \/ r.status = 404 /\ r.error = "Seller not found"
    \/ r.status = 200 /\ ~r.isSignup

\* C16: a verify-otp that has verified its code answers from the signup
\* branch when the row was stored with is_signup and from the login branch
\* when it was not, whatever signupData the request carries
C16_BranchFromStoredFlag ==
    [][\A otp \in Codes, sd \in SignupInputs :
         LET id == mostRecentUnexpired(PhoneNew)
         IN (/\ id # 0
             /\ ~tooManyAttempts(otp_attempts[id])
             /\ otpVerification(otp_attempts[id], otp, "ok") # "none"
             /\ VerifyOtp(PhoneNew, otp, sd, "ok"))
            => IF otp_attempts[id].is_signup
               THEN SignupOutcome(resp') /\ ~LoginOutcome(resp')
               ELSE LoginOutcome(resp') /\ ~SignupOutcome(resp')]_vars

\* a verified signup attempt was answered from the signup branch though the
\* request carried no signupData
C16_Witness ==
    /\ last.op = "verify-otp"
    /\ last.row # 0
    /\ otp_attempts[last.row].is_signup
    /\ otp_attempts[last.row].verified_at # NoTime
    /\ resp.error = "Owner name and restaurant name required for signup"
    /\ SellersByPhone(last.phone) = {}

----------------------------------------------------------------------------
(* Suspended accounts (SpecRate).                                          *)

SendPhones == {PhoneOld, PhoneNew, PhoneSusp, PhoneShort}

\* C17: a send-otp for the phone of a suspended seller is answered 403
\* 'Account is suspended', logs a failed otp_request, creates no row and does
\* not call the SMS provider
C17_SuspendedRejected ==
    [][\A p \in SendPhones :
         (/\ \E s \in sellers : s.rest_phone = p /\ s.account_status = "suspended"
          /\ SendOtp(p, "1234", "ok"))
         => /\ resp'.status = 403
            /\ resp'.error = "Account is suspended"
            /\ otp_attempts' = otp_attempts
            /\ last'.sms = FALSE
            /\ \E l \in auth_logs' :
                 /\ l.event_type = "otp_request"
                 /\ l.phone_number = p
                 /\ l.success = FALSE
                 /\ l.error_message = "Account suspended"
                 /\ \E s \in sellers : s.rest_phone = p /\ s.seller_id = l.seller_id]_vars

\* a send-otp for the suspended seller was rejected
C17_Witness ==
    /\ last.op = "send-otp"
    /\ last.phone = PhoneSusp
    /\ resp.status = 403
    /\ resp.error = "Account is suspended"
    /\ \A i \in 1..Len(otp_attempts) : otp_attempts[i].phone_number # PhoneSusp
    /\ \E l \in auth_logs : l.error_message = "Account suspended"

----------------------------------------------------------------------------
(* Provider failure (SpecFallback).                                        *)

\* C18: whenever the SMS provider call fails or times out, send-otp of the
\* seller handler and of the end-user handler answers success with smsStatus
\* 'fallback' and stores an otp_attempts row whose sms_provider is 'console'
\* and whose sms_status is 'fallback'
C18_ProviderFailureFallsBack ==
    [][\A p \in {PhoneOld, PhoneNew} : \A net \in {"error", "timeout"} :
         (/\ last'.phone = p
          /\ last'.sms
          /\ \/ last'.op = "send-otp" /\ SendOtp(p, "1234", net)
             \/ last'.op = "user-send-otp" /\ UserSendOtp(p, "1234", net))
         => /\ resp'.status = 200
            /\ resp'.smsStatus = "fallback"
            /\ Len(otp_attempts') = Len(otp_attempts) + 1
            /\ otp_attempts'[Len(otp_attempts')].sms_provider = "console"
            /\ otp_attempts'[Len(otp_attempts')].sms_status = "fallback"]_vars

----------------------------------------------------------------------------
(* Foreign keys at the delete of the sellers row (SpecDel).                *)

\* C19: when handleSellerDeletion reaches the DELETE of the sellers row, no
\* row of a table with a foreign key to sellers.seller_id (auth_sessions,
\* auth_logs) still names the seller, so that DELETE never fails on a
\* foreign-key constraint
C19_SellerDeleteNeverViolatesFk ==
    [][\A id \in SellerIds :
         DeleteStep(id) => resp'.error # "violates foreign key constraint"]_vars

----------------------------------------------------------------------------
(* The audit entry of a logout (SpecTok).                                  *)

\* the account a logout request identifies: the one named by a bearer token
\* that verifies, or by a refresh token in the body that verifies
Identified(refreshToken, bearer) ==
    (IF jwtVerify(bearer, now) THEN {bearer.userId} ELSE {})
    \cup (IF jwtVerify(refreshToken, now) /\ refreshToken.type = "refresh"
          THEN {refreshToken.userId} ELSE {})

\* C20: a logout writes a 'logout' entry for the account exactly when the
\* bearer token or the refresh token of the body is valid and so names an
\* account, and leaves auth_logs alone when neither does
C20_LogoutLoggedIffIdentified ==
    [][\A t \in {last'.token} : \A b \in TokenInputs :
         (last'.op = "logout" /\ Logout(t, b))
         => IF Identified(t, b) # {}
            THEN \E l \in auth_logs' :
                   l.event_type = "logout" /\ l.seller_id \in Identified(t, b)
            ELSE auth_logs' = auth_logs]_vars

----------------------------------------------------------------------------
(* Phone formats (SpecPhone).                                              *)

\* C21: send2FactorOTP accepts a number exactly when 10 digits remain after
\* the cleaning; '9325235592', '+919325235592' and '91-9325235592' are
\* accepted and cleaned to '9325235592', '932523559' is rejected, and a
\* rejected number gets a failure result without a call of the provider
C21_PhoneNormalization ==
    last.op = "send2FactorOTP"
    => /\ last.sms <=> Len(cleanPhoneNumber(last.phone)) = CleanPhoneLen
       /\ last.phone \in {PhoneOld, <<"+", "9", "1">> \o PhoneOld,
                           <<"9", "1", "-">> \o PhoneOld}
          => last.sms /\ cleanPhoneNumber(last.phone) = PhoneOld
       /\ last.phone = NinePhone => ~last.sms
       /\ ~last.sms => resp.error = "Failed to send SMS"

----------------------------------------------------------------------------
(* The expiry boundary (Spec).                                             *)

\* every row of the phone has reached its expires_at
AllExpired(p) ==
    \A i \in 1..Len(otp_attempts) :
       otp_attempts[i].phone_number = p => otp_attempts[i].expires_at <= now

\* C22: verify-otp never evaluates a row whose expires_at is not in the
\* future; when every row of the phone has expired the request is answered
\* 400 'No valid OTP found or OTP expired', no row changes and no session or
\* token is issued, whatever the code
C22_ExpiredNeverEvaluated ==
    [][\A otp \in Codes : \A sd \in SignupInputs :
         (/\ last'.op = "verify-otp"
          /\ last'.otp = otp
          /\ VerifyOtp(PhoneOld, otp, sd, "ok"))
         => /\ last'.row # 0 => otp_attempts[last'.row].expires_at > now
            /\ AllExpired(PhoneOld)
               => /\ resp'.status = 400
                  /\ resp'.error = "No valid OTP found or OTP expired"
                  /\ resp'.accessToken = NoToken
                  /\ resp'.refreshToken = NoToken
                  /\ UNCHANGED <<otp_attempts, auth_sessions, issued, sellers>>]_vars

\* the right code was sent for the only row of the phone, at the very minute
\* the row expires, and was turned down
C22_Witness ==
    /\ last.op = "verify-otp"
    /\ last.phone = PhoneOld
    /\ resp.error = "No valid OTP found or OTP expired"
    /\ Len(otp_attempts) = 1
    /\ otp_attempts[1].otp_hash = hashToken(last.otp)
    /\ otp_attempts[1].expires_at = now
    /\ otp_attempts[1].attempts = 0
    /\ auth_sessions = {}

----------------------------------------------------------------------------
(* Concurrent send-otp requests (SpecSendRace).                            *)

\* C23: with send-otp requests for one phone in flight together, the rows of
\* the phone created within the last rolling hour never number more than 5
C23_RateLimitUnderConcurrency ==
    Cardinality(RowsInLastHour(PhoneOld)) <= RateLimit

----------------------------------------------------------------------------
(* Concurrent verify-otp requests (SpecVerifyRace).                        *)

\* C24: with verify-otp requests for one phone in flight together, no more
\* than 3 wrong codes are compared with one row; every wrong comparison adds
\* one to the attempts of the row, so the column never passes 3
C24_GuessesBoundedUnderConcurrency ==
    \A i \in 1..Len(otp_attempts) : otp_attempts[i].attempts <= MaxOtpFailures

----------------------------------------------------------------------------
(* Rejections after the code check (SpecSignup).                           *)

\* C25: a verify-otp that is turned down after the code check (signup
\* without ownerName or restaurantName; login for a phone with no account)
\* leaves the row as it was, verified_at null and sms_status as sent, and
\* creates no account and no session
C25_LateRejectionLeavesRow ==
    [][(/\ last'.op = "verify-otp"
        /\ resp'.error \in {"Owner name and restaurant name required for signup",
                             "Seller not found"})
       => /\ otp_attempts' = otp_attempts
          /\ otp_attempts'[last'.row].verified_at = NoTime
          /\ sellers' = sellers
          /\ auth_sessions' = auth_sessions]_vars

----------------------------------------------------------------------------
(* Tokens and suspended accounts (SpecSuspend).                            *)

\* C26: neither verify-otp nor refresh hands out a token for an account
\* whose account_status is 'suspended' when the request is made
C26_NoTokensForSuspended ==
    [][(/\ last'.op \in {"verify-otp", "refresh"}
        /\ resp'.accessToken # NoToken)
       => \A x \in sellers :
            x.seller_id = resp'.accessToken.userId
            => x.account_status # "suspended"]_vars

----------------------------------------------------------------------------
(* Concurrent signups (SpecSignupRace).                                    *)

\* C27: signups that interleave never give one address_id to two new
\* accounts: the address_id of a newly created account is that of no other
\* account
C27_FreshAddressPerSignup ==
    \A x \in sellers : \A y \in sellers :
       (x.seller_id \in NewSellerIds /\ y # x) => y.address_id # x.address_id

----------------------------------------------------------------------------
(* Concurrent deletions (SpecDelRace).                                     *)

\* C28: when the deletions of two sellers that share an address_id have both
\* committed, the shared addresses row is gone: with no deletion in flight,
\* every addresses row is the address of some seller
C28_NoOrphanAddress ==
    inflight = <<>>
    => \A a \in addresses : \E x \in sellers : x.address_id = a.address_id

----------------------------------------------------------------------------
(* After the deletion of an account (SpecGone).                            *)

\* the account of the phone is gone
Deleted(p) == \A x \in sellers : x.rest_phone # p

\* C29: once the deletion of an account has committed, a refresh with a
\* refresh token that was issued to it is rejected and returns no access
\* token, and a verify-otp with the code of a login row sent before the
\* deletion is answered 404 'Seller not found' and stores no session
C29_DeletedAccountLockedOut ==
    [][/\ (/\ last'.op = "refresh"
           /\ last'.token \in issued
           /\ last'.token.type = "refresh"
           /\ \A x \in sellers : x.seller_id # last'.token.userId)
          => /\ resp'.status \in {401, 404}
             /\ resp'.accessToken = NoToken
             /\ issued' = issued
       /\ (/\ last'.op = "verify-otp"
           /\ last'.row # 0
           /\ Deleted(last'.phone)
           /\ ~otp_attempts[last'.row].is_signup)
          => /\ auth_sessions' = auth_sessions
             /\ issued' = issued
             /\ resp'.accessToken = NoToken
             /\ resp'.status \in {400, 404}
             /\ (/\ otp_attempts[last'.row].otp_hash = hashToken(last'.otp)
                 /\ ~tooManyAttempts(otp_attempts[last'.row]))
                => resp'.status = 404 /\ resp'.error = "Seller not found"]_vars

\* the deleted seller, whose session rows went with it, was turned away at
\* verify-otp with the right code of a row sent before the deletion, while
\* it still holds a refresh token that has not expired
C29_Witness ==
    /\ last.op = "verify-otp"
    /\ resp.status = 404
    /\ Deleted(PhoneOld)
    /\ auth_sessions = {}
    /\ \E t \in issued : t.type = "refresh" /\ t.userId = "SELLER_1" /\ jwtVerify(t, now)
    /\ otp_attempts[last.row].otp_hash = hashToken(last.otp)

----------------------------------------------------------------------------
(* Logout in the end-user flow (SpecUser).                                 *)

\* C30: in the end-user flow, a refresh that follows a logout does not
\* accept a refresh token issued by verify-otp: a refresh token is accepted
\* only while a session stored for it is active, and the logout has ended
\* the session
C30_UserLogoutEndsRefresh ==
    [][(/\ last.op = "user-logout"
        /\ last'.op = "user-refresh"
        /\ last'.token \in issued
        /\ last'.token.type = "refresh")
       => /\ resp'.status # 200
          /\ resp'.accessToken = NoToken]_vars

====
